---- MODULE Spec2Model ----
(***************************************************************************)
(* The two mock HTTP servers of abai-springs-webapp:                        *)
(*   backend/python-server.py   AbaiSpringsHandler  (commerce API, 3001)    *)
(*   simple-staff-server.py     StaffPortalHandler  (staff portal, 3004)    *)
(* Each is a socketserver.TCPServer around a SimpleHTTPRequestHandler       *)
(* subclass.  The two are separate programs that share nothing, so a        *)
(* behaviour of this module is a run of one of them: Init picks which.      *)
(*                                                                          *)
(* Request targets and file names are sequences of one-character strings,   *)
(* so that urlparse, translate_path and the substring test of do_POST are   *)
(* computed on the characters, as the code computes them.  Targets are in   *)
(* origin form (they start with one "/") and contain no "%", "." or ".."    *)
(* segment, on which unquote and normpath change nothing.                   *)
(***************************************************************************)
EXTENDS Integers, Sequences, FiniteSets, TLC

----------------------------------------------------------------------------
(* The string literals of the two sources. *)

\* "/api/health"
P_api_health ==
    <<"/", "a", "p", "i", "/", "h", "e", "a", "l", "t", "h">>
\* "/api/products"
P_api_products ==
    <<"/", "a", "p", "i", "/", "p", "r", "o", "d", "u", "c", "t", "s">>
\* "/api/outlets"
P_api_outlets ==
    <<"/", "a", "p", "i", "/", "o", "u", "t", "l", "e", "t", "s">>
\* "/api/orders"
P_api_orders ==
    <<"/", "a", "p", "i", "/", "o", "r", "d", "e", "r", "s">>
\* "/api/auth/users"
P_api_auth_users ==
    <<"/", "a", "p", "i", "/", "a", "u", "t", "h", "/", "u", "s", "e", "r",
      "s">>
\* "/api/stock-alerts/statistics"
P_api_stock_alerts_statistics ==
    <<"/", "a", "p", "i", "/", "s", "t", "o", "c", "k", "-", "a", "l", "e",
      "r", "t", "s", "/", "s", "t", "a", "t", "i", "s", "t", "i", "c", "s">>
\* "/api/stock-alerts"
P_api_stock_alerts ==
    <<"/", "a", "p", "i", "/", "s", "t", "o", "c", "k", "-", "a", "l", "e",
      "r", "t", "s">>
\* "/admin-fixed"
P_admin_fixed ==
    <<"/", "a", "d", "m", "i", "n", "-", "f", "i", "x", "e", "d">>
\* "/admin-dashboard-fixed.html"
P_admin_dashboard_fixed_html ==
    <<"/", "a", "d", "m", "i", "n", "-", "d", "a", "s", "h", "b", "o", "a",
      "r", "d", "-", "f", "i", "x", "e", "d", ".", "h", "t", "m", "l">>
\* "/api/stock-alerts/monitoring/start"
P_monitoring_start ==
    <<"/", "a", "p", "i", "/", "s", "t", "o", "c", "k", "-", "a", "l", "e",
      "r", "t", "s", "/", "m", "o", "n", "i", "t", "o", "r", "i", "n", "g",
      "/", "s", "t", "a", "r", "t">>
\* "/api/stock-alerts/monitoring/stop"
P_monitoring_stop ==
    <<"/", "a", "p", "i", "/", "s", "t", "o", "c", "k", "-", "a", "l", "e",
      "r", "t", "s", "/", "m", "o", "n", "i", "t", "o", "r", "i", "n", "g",
      "/", "s", "t", "o", "p">>
\* "/staff-login"
P_staff_login ==
    <<"/", "s", "t", "a", "f", "f", "-", "l", "o", "g", "i", "n">>
\* "/owner-dashboard"
P_owner_dashboard ==
    <<"/", "o", "w", "n", "e", "r", "-", "d", "a", "s", "h", "b", "o", "a",
      "r", "d">>
\* "/api/auth/staff-login"
P_api_auth_staff_login ==
    <<"/", "a", "p", "i", "/", "a", "u", "t", "h", "/", "s", "t", "a", "f",
      "f", "-", "l", "o", "g", "i", "n">>
\* "/missing.html"
P_missing_html ==
    <<"/", "m", "i", "s", "s", "i", "n", "g", ".", "h", "t", "m", "l">>
\* "staff-login.html"
F_staff_login_html ==
    <<"s", "t", "a", "f", "f", "-", "l", "o", "g", "i", "n", ".", "h", "t",
      "m", "l">>
\* "owner-dashboard.html"
F_owner_dashboard_html ==
    <<"o", "w", "n", "e", "r", "-", "d", "a", "s", "h", "b", "o", "a", "r",
      "d", ".", "h", "t", "m", "l">>
\* "start"
W_start ==
    <<"s", "t", "a", "r", "t">>
\* ".html"
W_dot_html ==
    <<".", "h", "t", "m", "l">>

----------------------------------------------------------------------------
(* str operations used by the handlers and by the library calls they make. *)

\* s.find(c): the first index of character c in s (1-based), 0 if absent.
Find(c, s) ==
    IF \E i \in 1..Len(s) : s[i] = c
    THEN CHOOSE i \in 1..Len(s) : s[i] = c /\ \A j \in 1..(i - 1) : s[j] # c
    ELSE 0

\* s.rfind(c): the last index of character c in s, 0 if absent.
RFind(c, s) ==
    IF \E i \in 1..Len(s) : s[i] = c
    THEN CHOOSE i \in 1..Len(s) : s[i] = c /\ \A j \in (i + 1)..Len(s) : s[j] # c
    ELSE 0

\* s.split(c, 1)[0]: what precedes the first c, all of s if there is none.
SplitFirst(c, s) ==
    IF Find(c, s) = 0 THEN s ELSE SubSeq(s, 1, Find(c, s) - 1)

\* sub in s
Contains(sub, s) ==
    \E i \in 1..(Len(s) - Len(sub) + 1) : SubSeq(s, i, i + Len(sub) - 1) = sub

\* s.endswith(suffix)
EndsWith(s, suffix) ==
    /\ Len(suffix) <= Len(s)
    /\ SubSeq(s, Len(s) - Len(suffix) + 1, Len(s)) = suffix

\* urllib.parse._splitparams(url)[0]: the parameters of the last segment
\* (from the first ";" after the last "/") are cut off.
splitparams(url) ==
    LET slash == RFind("/", url)
        rest  == SubSeq(url, slash + 1, Len(url))
        semi  == Find(";", rest)
    IN  IF semi = 0 THEN url ELSE SubSeq(url, 1, slash + semi - 1)

\* the target compared as it came, nothing cut
urlparse_path_raw(target) == target

\* urlparse(self.path).path for an origin-form target: urlsplit cuts the
\* fragment, then the query; urlparse then cuts the parameters.
urlparse_path(target) ==
    splitparams(SplitFirst("?", SplitFirst("#", target)))

\* SimpleHTTPRequestHandler.translate_path: the file named by a target,
\* relative to the document root.  Query and fragment are cut (parameters
\* are not), the leading "/" goes, a trailing "/" stays.
translate_path(self_path) ==
    LET p == SplitFirst("#", SplitFirst("?", self_path))
    IN  IF Len(p) > 0 /\ p[1] = "/" THEN Tail(p) ELSE p

\* mimetypes guess of SimpleHTTPRequestHandler.guess_type
guess_type(name) ==
    IF EndsWith(name, W_dot_html) THEN "text/html" ELSE "application/octet-stream"

----------------------------------------------------------------------------
(* Responses.  status = 0 means that no status line was written.  headers  *)
(* holds what the handler passes to send_header (send_response adds Server  *)
(* and Date to every response).  raised names the exception that left the   *)
(* handler, "" if it returned.                                              *)

NoBody == [kind |-> "bytes", text |-> ""]

Bytes(t) == [kind |-> "bytes", text |-> t]

\* json.dumps(value).encode(): the body carries the value it serialises.
Json(v) == [kind |-> "json", json |-> v]

\* f.read() of an open file of the document root
FileBytes(name) == [kind |-> "file", name |-> name]

Response(status, headers, body) ==
    [status |-> status, headers |-> headers, body |-> body, raised |-> ""]

\* An exception propagates out of do_GET/do_POST: what was written so far
\* stays written, nothing more follows.
Raised(exc, status, headers) ==
    [status |-> status, headers |-> headers, body |-> NoBody, raised |-> exc]

\* send_error(404, "File not found"): the library's error page
ErrorPage404 ==
    Response(404, {<<"Content-Type", "text/html;charset=utf-8">>},
             [kind |-> "errorpage", code |-> 404])

\* SimpleHTTPRequestHandler.do_GET (send_head + copyfile) over a document
\* root whose files are the names in fs.
SimpleHTTPRequestHandler_do_GET(self_path, fs) ==
    LET name == translate_path(self_path)
    IN  IF EndsWith(name, <<"/">>) THEN ErrorPage404
        ELSE IF name \in fs
        THEN Response(200, {<<"Content-type", guess_type(name)>>}, FileBytes(name))
        ELSE ErrorPage404

----------------------------------------------------------------------------
(* Request bodies.  A body is what its Content-Length bytes turn into:      *)
(* utf8 says whether post_data.decode('utf-8') succeeds, doc is what        *)
(* json.loads makes of the text: "invalid" (JSONDecodeError) or a JSON      *)
(* value, of which only an object has members.                              *)

LoginKeys == {"email", "password", "role"}

\* data.get(key, default) on a dict
dict_get(data, key, default) ==
    IF key \in DOMAIN data.members THEN data.members[key] ELSE default

----------------------------------------------------------------------------
(* backend/python-server.py *)

\* datetime.now().isoformat(): one text per clock reading
isoformat(now) == <<"isoformat", now>>

JsonCorsHeaders ==
    {<<"Content-type", "application/json">>, <<"Access-Control-Allow-Origin", "*">>}

\* Products with the third record lost
Products_truncated ==
    << [_id |-> "1", name |-> "Abai Water 500ml", brand |-> "Abai",
        price |-> 50, stock |-> 150],
       [_id |-> "2", name |-> "Abai Water 1L", brand |-> "Abai",
        price |-> 80, stock |-> 200] >>

Products ==
    << [_id |-> "1", name |-> "Abai Water 500ml", brand |-> "Abai",
        price |-> 50, stock |-> 150],
       [_id |-> "2", name |-> "Abai Water 1L", brand |-> "Abai",
        price |-> 80, stock |-> 200],
       [_id |-> "3", name |-> "Sprinkle Water 500ml", brand |-> "Sprinkle",
        price |-> 45, stock |-> 120] >>

Outlets ==
    << [_id |-> "1", name |-> "Nairobi Central", location |-> "Nairobi CBD",
        phone |-> "+254 700 123 456", status |-> "Active"],
       [_id |-> "2", name |-> "Mombasa Branch", location |-> "Mombasa City",
        phone |-> "+254 700 789 012", status |-> "Active"] >>

Orders ==
    << [_id |-> "1", orderNumber |-> "ORD001", customer |-> "John Doe",
        total |-> 100, status |-> "Delivered"],
       [_id |-> "2", orderNumber |-> "ORD002", customer |-> "Jane Smith",
        total |-> 45, status |-> "Processing"] >>

Users ==
    << [_id |-> "1", name |-> "John Doe", email |-> "john@example.com",
        phone |-> "+254 700 123 456"],
       [_id |-> "2", name |-> "Jane Smith", email |-> "jane@example.com",
        phone |-> "+254 700 789 012"] >>

StockAlertStatistics ==
    [activeAlerts |-> 5, alertsSentToday |-> 12, monitoringActive |-> TRUE,
     totalPredictions |-> 8]

AbaiSprings_health(now) ==
    [status |-> "OK", message |-> "Python server is running",
     timestamp |-> isoformat(now)]

\* the rewrite forgotten: the target is served as it came
admin_fixed_rewrite_forgotten(self_path) == self_path

\* self.path = '/admin-dashboard-fixed.html'
admin_fixed_rewrite(self_path) == P_admin_dashboard_fixed_html

\* AbaiSpringsHandler.do_GET
AbaiSprings_do_GET(self_path, fs, now) ==
    LET path == urlparse_path(self_path)
    IN  IF path = P_api_health
        THEN Response(200, JsonCorsHeaders, Json(AbaiSprings_health(now)))
        ELSE IF path = P_api_products
        THEN Response(200, JsonCorsHeaders, Json(Products))
        ELSE IF path = P_api_outlets
        THEN Response(200, JsonCorsHeaders, Json(Outlets))
        ELSE IF path = P_api_orders
        THEN Response(200, JsonCorsHeaders, Json(Orders))
        ELSE IF path = P_api_auth_users
        THEN Response(200, JsonCorsHeaders, Json(Users))
        ELSE IF path = P_api_stock_alerts_statistics
        THEN Response(200, JsonCorsHeaders, Json(StockAlertStatistics))
        ELSE IF path = P_api_stock_alerts
        THEN Response(200, JsonCorsHeaders, Json(<<>>))
        ELSE IF path = P_admin_fixed
        THEN SimpleHTTPRequestHandler_do_GET(admin_fixed_rewrite(self_path), fs)
        ELSE SimpleHTTPRequestHandler_do_GET(self_path, fs)

\* the test loosened to a shorter word, which "/stop" contains too
monitoring_action_loose(path) ==
    IF Contains(<<"s", "t">>, path) THEN "started" ELSE "stopped"

\* action = 'started' if 'start' in path else 'stopped'
monitoring_action(path) ==
    IF Contains(W_start, path) THEN "started" ELSE "stopped"

\* f'Monitoring {action}'
monitoring_message(action) ==
    IF action = "started" THEN "Monitoring started" ELSE "Monitoring stopped"

\* AbaiSpringsHandler.do_POST
AbaiSprings_do_POST(self_path) ==
    LET path == urlparse_path(self_path)
    IN  IF path \in {P_monitoring_start, P_monitoring_stop}
        THEN Response(200, JsonCorsHeaders,
                      Json([success |-> TRUE,
                            message |-> monitoring_message(monitoring_action(path))]))
        ELSE Response(404, {}, NoBody)

\* a preflight answered for the API paths only
AbaiSprings_do_OPTIONS_routed(self_path) ==
    IF urlparse_path(self_path) \in {P_api_health, P_api_products, P_api_outlets}
    THEN Response(200,
                  {<<"Access-Control-Allow-Origin", "*">>,
                   <<"Access-Control-Allow-Methods", "GET, POST, OPTIONS">>,
                   <<"Access-Control-Allow-Headers", "Content-Type">>},
                  NoBody)
    ELSE Response(404, {}, NoBody)

\* AbaiSpringsHandler.do_OPTIONS
AbaiSprings_do_OPTIONS(self_path) ==
    Response(200,
             {<<"Access-Control-Allow-Origin", "*">>,
              <<"Access-Control-Allow-Methods", "GET, POST, OPTIONS">>,
              <<"Access-Control-Allow-Headers", "Content-Type">>},
             NoBody)

----------------------------------------------------------------------------
(* simple-staff-server.py *)

StaffPortal_health ==
    [status |-> "OK", message |-> "Staff Portal Server is running",
     endpoints |-> [staffLogin |-> "/staff-login",
                    ownerDashboard |-> "/owner-dashboard",
                    apiHealth |-> "/api/health"]]

\* the except clause writing nothing
read_or_fallback_silent(name, fallback, fs) ==
    IF name \in fs THEN FileBytes(name) ELSE NoBody

\* with open(name, 'rb') as f: wfile.write(f.read());
\* except FileNotFoundError: wfile.write(fallback)
read_or_fallback(name, fallback, fs) ==
    IF name \in fs THEN FileBytes(name) ELSE Bytes(fallback)

\* StaffPortalHandler.do_GET
StaffPortal_do_GET(self_path, fs) ==
    LET path == urlparse_path(self_path)
    IN  IF path = P_staff_login
        THEN Response(200, {<<"Content-type", "text/html">>},
                      read_or_fallback(F_staff_login_html,
                                       "<h1>Staff Login Page Not Found</h1>", fs))
        ELSE IF path = P_owner_dashboard
        THEN Response(200, {<<"Content-type", "text/html">>},
                      read_or_fallback(F_owner_dashboard_html,
                                       "<h1>Owner Dashboard Not Found</h1>", fs))
        ELSE IF path = P_api_health
        THEN Response(200, {<<"Content-type", "application/json">>},
                      Json(StaffPortal_health))
        ELSE SimpleHTTPRequestHandler_do_GET(self_path, fs)

LoginCorsHeaders ==
    {<<"Content-type", "application/json">>,
     <<"Access-Control-Allow-Origin", "*">>,
     <<"Access-Control-Allow-Methods", "POST, OPTIONS">>,
     <<"Access-Control-Allow-Headers", "Content-Type">>}

LoginSuccess ==
    [success |-> TRUE, message |-> "Staff login successful",
     token |-> "mock-jwt-token",
     user |-> [id |-> "1", name |-> "Business Owner",
               email |-> "admin@abaisprings.com", role |-> "owner"]]

LoginFailure == [success |-> FALSE, message |-> "Invalid credentials"]

\* The mock authentication of do_POST, once json.loads has returned data.
\* data.get exists on a dict only: any other JSON value raises
\* AttributeError, which the handler's except clause does not name.
mock_authentication(data) ==
    IF data.type # "object" THEN Raised("AttributeError", 0, {})
    ELSE LET email    == dict_get(data, "email", "")
             password == dict_get(data, "password", "")
             role     == dict_get(data, "role", "")
         IN  IF /\ email = "admin@abaisprings.com"
                /\ password = "password123"
                /\ role = "owner"
             THEN Response(200, LoginCorsHeaders, Json(LoginSuccess))
             ELSE Response(401, LoginCorsHeaders, Json(LoginFailure))

\* The try block of do_POST: decode, json.loads, authenticate; only
\* json.JSONDecodeError is caught (UnicodeDecodeError is not one).
staff_login(body) ==
    IF ~body.utf8 THEN Raised("UnicodeDecodeError", 0, {})
    ELSE IF body.doc.type = "invalid"
    THEN Response(400, {<<"Content-type", "application/json">>},
                  Json([error |-> "Invalid JSON"]))
    ELSE mock_authentication(body.doc)

\* StaffPortalHandler.do_POST.  content_length is the request's
\* Content-Length header: "exact", "missing" (headers[...] is None and
\* int(None) raises TypeError) or "malformed" (int raises ValueError).
StaffPortal_do_POST(self_path, content_length, body) ==
    LET path == urlparse_path(self_path)
    IN  IF path = P_api_auth_staff_login
        THEN IF content_length = "missing" THEN Raised("TypeError", 0, {})
             ELSE IF content_length = "malformed" THEN Raised("ValueError", 0, {})
             ELSE staff_login(body)
        ELSE Response(404, {}, Bytes("Not Found"))

\* content_length = int(self.headers['Content-Length']);
\* post_data = self.rfile.read(content_length): the handler reads the body,
\* and waits for all of it, on the login path only.
StaffPortal_reads_body(self_path, content_length) ==
    /\ urlparse_path(self_path) = P_api_auth_staff_login
    /\ content_length = "exact"

\* StaffPortalHandler.do_OPTIONS
StaffPortal_do_OPTIONS(self_path) ==
    Response(200,
             {<<"Access-Control-Allow-Origin", "*">>,
              <<"Access-Control-Allow-Methods", "GET, POST, OPTIONS">>,
              <<"Access-Control-Allow-Headers", "Content-Type">>},
             NoBody)

----------------------------------------------------------------------------
(* BaseHTTPRequestHandler.handle_one_request: the method names the          *)
(* handler, do_<command>.                                                   *)

Commerce == "AbaiSpringsHandler"
Staff == "StaffPortalHandler"
Servers == {Commerce, Staff}

Handle(srv, req, fs, now) ==
    IF srv = Commerce
    THEN IF req.method = "GET" THEN AbaiSprings_do_GET(req.target, fs, now)
         ELSE IF req.method = "POST" THEN AbaiSprings_do_POST(req.target)
         ELSE AbaiSprings_do_OPTIONS(req.target)
    ELSE IF req.method = "GET" THEN StaffPortal_do_GET(req.target, fs)
         ELSE IF req.method = "POST"
         THEN StaffPortal_do_POST(req.target, req.content_length, req.body)
         ELSE StaffPortal_do_OPTIONS(req.target)

----------------------------------------------------------------------------
(* Inputs *)

\* readings of datetime.now() (python-server.py line 27)
MaxClock == 2
\* connections a run of the accept loop receives
MaxConns == 3

Methods == {"GET", "POST", "OPTIONS"}

BaseTargets ==
    {P_api_health, P_api_products, P_api_outlets, P_api_orders,
     P_api_auth_users, P_api_stock_alerts_statistics, P_api_stock_alerts,
     P_admin_fixed, P_admin_dashboard_fixed_html, P_monitoring_start,
     P_monitoring_stop, P_staff_login, P_owner_dashboard,
     P_api_auth_staff_login, P_missing_html}

\* nothing, a query, parameters of the last segment, one more segment
Suffixes == {<<>>, <<"?", "q">>, <<";", "p">>, <<"/", "x">>}

ExtraTargets ==
    {P_api_health \o <<"#", "f">>,
     P_api_health \o <<"/">>,
     P_staff_login \o <<"/">>,
     P_admin_dashboard_fixed_html \o <<"/">>,
     P_monitoring_stop \o <<"?">> \o W_start,
     P_admin_fixed \o <<"?", "a", ";", "b">>,
     P_api_health \o <<";", "p", "/", "x">>}

Targets == {b \o s : b \in BaseTargets, s \in Suffixes} \cup ExtraTargets

\* files the document root may hold
Files ==
    {Tail(P_admin_dashboard_fixed_html), F_staff_login_html,
     F_owner_dashboard_html, Tail(P_staff_login)}

Credential ==
    [email |-> "admin@abaisprings.com", password |-> "password123",
     role |-> "owner"]

\* JSON objects over the three keys: each key absent, right or wrong
Objects ==
    {[k \in present |-> IF k \in wrong THEN "x" ELSE Credential[k]] :
        present \in SUBSET LoginKeys, wrong \in SUBSET LoginKeys}

NoMembers == [k \in {} |-> ""]

JsonDocs ==
    {[type |-> "object", members |-> o] : o \in Objects}
    \cup {[type |-> t, members |-> NoMembers] :
            t \in {"array", "string", "number", "null", "invalid"}}

\* b'' (json.loads('') raises JSONDecodeError)
EmptyBody == [utf8 |-> TRUE, doc |-> [type |-> "invalid", members |-> NoMembers]]

Bodies ==
    {[utf8 |-> TRUE, doc |-> d] : d \in JsonDocs}
    \cup {[utf8 |-> FALSE, doc |-> [type |-> "invalid", members |-> NoMembers]]}

LoginTargets ==
    {P_api_auth_staff_login \o s : s \in {<<>>, <<"?", "q">>, <<";", "p">>}}

Request(m, t, cl, b) ==
    [method |-> m, target |-> t, content_length |-> cl, body |-> b]

Requests ==
    {Request(m, t, "exact", EmptyBody) : m \in Methods, t \in Targets}
    \cup {Request("POST", t, "exact", b) : t \in LoginTargets, b \in Bodies}
    \cup {Request("POST", P_api_auth_staff_login, cl, EmptyBody) :
            cl \in {"missing", "malformed"}}

ArrayBody == [utf8 |-> TRUE, doc |-> [type |-> "array", members |-> NoMembers]]
OwnerBody == [utf8 |-> TRUE, doc |-> [type |-> "object", members |-> Credential]]

\* the requests of the accept-loop specification
ConcRequests ==
    {Request("GET", P_api_health, "exact", EmptyBody),
     Request("POST", P_api_auth_staff_login, "exact", OwnerBody),
     Request("POST", P_api_auth_staff_login, "exact", ArrayBody),
     Request("POST", P_api_auth_staff_login, "missing", EmptyBody)}

----------------------------------------------------------------------------
(* State *)

VARIABLES
    server,     \* which of the two programs this run is
    up,         \* serve_forever is running
    fs,         \* the files of the document root
    last,       \* <<>> or <<the latest request and its outcome>>
    probe,      \* <<>> or <<an earlier canned JSON exchange, remembered>>
    backlog,    \* connections the listening socket holds, oldest first
    cur,        \* connections whose handler is running
    accepted,   \* ids of the connections accepted, in order
    log         \* finished connections with their outcomes, in order

vars == <<server, up, fs, last, probe, backlog, cur, accepted, log>>

Init ==
    /\ server \in Servers
    /\ up = TRUE
    /\ fs = {}
    /\ last = <<>>
    /\ probe = <<>>
    /\ backlog = <<>>
    /\ cur = {}
    /\ accepted = <<>>
    /\ log = <<>>

----------------------------------------------------------------------------------------------------------------------------------------
(* One request at a time: a connection is accepted, its request handled and *)
(* the connection shut down before the next accept (HTTP/1.0, one request   *)
(* per connection), so an exchange is one step.  last is the exchange the   *)
(* client is looking at; once the client is done with it the next request   *)
(* may come.                                                                *)

\* the exception leaving serve_forever: the process ends
handle_error_fatal(running) == FALSE

\* socketserver.BaseServer._handle_request_noblock: an Exception out of the
\* handler goes to handle_error and shutdown_request; the loop goes on.
handle_error(running) == running

Exchange(req, now) ==
    /\ up
    /\ last = <<>>
    /\ LET out == Handle(server, req, fs, now)
       IN  /\ last' = << [req |-> req, out |-> out] >>
           /\ up' = IF out.raised # "" THEN handle_error(up) ELSE up
    /\ UNCHANGED <<server, fs, probe, backlog, cur, accepted, log>>

\* The client has read the response (or seen the connection close).
Done ==
    /\ last # <<>>
    /\ last' = <<>>
    /\ UNCHANGED <<server, up, fs, probe, backlog, cur, accepted, log>>

\* An observer keeps an exchange that a canned JSON body answered, to
\* compare later exchanges with.
Remember ==
    /\ last # <<>>
    /\ last[1].out.raised = ""
    /\ last[1].out.body.kind = "json"
    /\ probe' = << [method |-> last[1].req.method,
                    path |-> urlparse_path(last[1].req.target),
                    out |-> last[1].out] >>
    /\ last' = <<>>
    /\ UNCHANGED <<server, up, fs, backlog, cur, accepted, log>>

\* The environment creates or removes a file of the document root.
ChangeFile(f) ==
    /\ last = <<>>
    /\ fs' = IF f \in fs THEN fs \ {f} ELSE fs \cup {f}
    /\ UNCHANGED <<server, up, last, probe, backlog, cur, accepted, log>>

Next ==
    \/ \E req \in Requests, now \in 1..MaxClock : Exchange(req, now)
    \/ Done
    \/ Remember
    \/ \E f \in Files : ChangeFile(f)

Spec == Init /\ [][Next]_vars

----------------------------------------------------------------------------
(* The accept loop, step by step.  socketserver.TCPServer has no            *)
(* ThreadingMixIn: serve_forever accepts a connection, runs its handler to  *)
(* the end (finish_request, shutdown_request) and only then accepts again.  *)
(* A connection is [id, req, sent, hung]: sent says the whole body has      *)
(* arrived, hung marks a client that never sends the rest.                  *)

Connections == Len(log) + Cardinality(cur) + Len(backlog)

\* The handler of connection c waits in rfile.read: no timeout is set.
Blocked(c) ==
    /\ server = Staff
    /\ c.req.method = "POST"
    /\ StaffPortal_reads_body(c.req.target, c.req.content_length)
    /\ ~c.sent

\* a threading server: accepts while a handler runs
accept_ready_threading(running, handlers) == running

\* serve_forever is between two requests
accept_ready(running, handlers) == running /\ handlers = {}

\* A client connects and sends its request, the body whole or in part.
Connect(req, sent, hung) ==
    /\ Connections < MaxConns
    /\ ~sent => req.method = "POST" /\ req.content_length = "exact"
    /\ hung => ~sent
    /\ backlog' = Append(backlog,
                         [id |-> Connections + 1, req |-> req,
                          sent |-> sent, hung |-> hung])
    /\ UNCHANGED <<server, up, fs, last, probe, cur, accepted, log>>

\* A slow client sends the rest of its body.
ClientSend ==
    \/ \E i \in 1..Len(backlog) :
          /\ ~backlog[i].sent /\ ~backlog[i].hung
          /\ backlog' = [backlog EXCEPT ![i].sent = TRUE]
          /\ UNCHANGED cur
    \/ \E c \in cur :
          /\ ~c.sent /\ ~c.hung
          /\ cur' = (cur \ {c}) \cup {[c EXCEPT !.sent = TRUE]}
          /\ UNCHANGED backlog
    /\ UNCHANGED <<server, up, fs, last, probe, accepted, log>>

\* get_request: the oldest waiting connection goes to a handler.
Accept ==
    /\ accept_ready(up, cur)
    /\ backlog # <<>>
    /\ cur' = cur \cup {Head(backlog)}
    /\ backlog' = Tail(backlog)
    /\ accepted' = Append(accepted, Head(backlog).id)
    /\ UNCHANGED <<server, up, fs, last, probe, log>>

\* The handler runs to its end: it returns, or an exception leaves it.
Finish(c, now) ==
    /\ c \in cur
    /\ ~Blocked(c)
    /\ LET out == Handle(server, c.req, fs, now)
       IN  /\ log' = Append(log, [id |-> c.id, req |-> c.req, out |-> out])
           /\ up' = IF out.raised # "" THEN handle_error(up) ELSE up
    /\ cur' = cur \ {c}
    /\ UNCHANGED <<server, fs, last, probe, backlog, accepted>>

NextConc ==
    \/ \E req \in ConcRequests, sent \in BOOLEAN, hung \in BOOLEAN :
          Connect(req, sent, hung)
    \/ ClientSend
    \/ Accept
    \/ \E c \in cur, now \in 1..MaxClock : Finish(c, now)

SpecConc == Init /\ [][NextConc]_vars

----------------------------------------------------------------------------
(* The vocabulary of the properties.  The path of a request is its target   *)
(* without the query string; the enumerated paths are those of the          *)
(* interface tables.                                                        *)

RequestPath(target) == SplitFirst("?", target)

EnumeratedGET(srv) ==
    IF srv = Commerce
    THEN {P_api_health, P_api_products, P_api_outlets, P_api_orders,
          P_api_auth_users, P_api_stock_alerts_statistics, P_api_stock_alerts,
          P_admin_fixed}
    ELSE {P_staff_login, P_owner_dashboard, P_api_health}

EnumeratedPOST(srv) ==
    IF srv = Commerce THEN {P_monitoring_start, P_monitoring_stop}
    ELSE {P_api_auth_staff_login}

\* the enumerated GET paths answered with a JSON fixture
KnownGET(srv) ==
    IF srv = Commerce THEN EnumeratedGET(Commerce) \ {P_admin_fixed}
    ELSE {P_api_health}

LastIs(srv, method) ==
    /\ last # <<>>
    /\ server = srv
    /\ last[1].req.method = method

LastPath == RequestPath(last[1].req.target)

\* the JSON body of out has field f with value v
JsonField(out, f, v) ==
    /\ out.body.kind = "json"
    /\ f \in DOMAIN out.body.json
    /\ out.body.json[f] = v

\* j is a list of n objects with the given keys
IsList(j, n, keys) ==
    /\ Len(j) = n
    /\ \A i \in 1..n : DOMAIN j[i] = keys

ThreeCorsHeaders(headers) ==
    /\ {h[1] : h \in headers} =
          {"Access-Control-Allow-Origin", "Access-Control-Allow-Methods",
           "Access-Control-Allow-Headers"}
    /\ <<"Access-Control-Allow-Origin", "*">> \in headers
    /\ Cardinality(headers) = 3

----------------------------------------------------------------------------
(* C1: staff login, for every body that parses as JSON: 200 with            *)
(* success=true and the token "mock-jwt-token" exactly when email, password *)
(* and role are the owner's; every other parsed body gets 401 with          *)
(* success=false.                                                           *)

ParsesAsJson(req) ==
    /\ req.content_length = "exact"
    /\ req.body.utf8
    /\ req.body.doc.type # "invalid"

HasCredential(doc) ==
    /\ doc.type = "object"
    /\ \A k \in LoginKeys : k \in DOMAIN doc.members /\ doc.members[k] = Credential[k]

C1_LoginDecidedByCredential ==
    (/\ LastIs(Staff, "POST")
     /\ LastPath = P_api_auth_staff_login
     /\ ParsesAsJson(last[1].req))
    => LET out == last[1].out
       IN  IF HasCredential(last[1].req.body.doc)
           THEN /\ out.status = 200
                /\ JsonField(out, "success", TRUE)
                /\ JsonField(out, "token", "mock-jwt-token")
           ELSE /\ out.status = 401
                /\ JsonField(out, "success", FALSE)

(* C2: staff login, for every body that is not JSON, undecodable bytes      *)
(* included: 400 with {"error": "Invalid JSON"}, and neither 200 nor 401.   *)
C2_NonJsonGets400 ==
    (/\ LastIs(Staff, "POST")
     /\ LastPath = P_api_auth_staff_login
     /\ last[1].req.content_length = "exact"
     /\ (~last[1].req.body.utf8 \/ last[1].req.body.doc.type = "invalid"))
    => /\ last[1].out.status = 400
       /\ last[1].out.body = Json([error |-> "Invalid JSON"])

(* C3: every OPTIONS request, on either server and for any target, gets 200 *)
(* with the three CORS headers and an empty body.                           *)
C3_OptionsAlways200 ==
    (last # <<>> /\ last[1].req.method = "OPTIONS")
    => /\ last[1].out.status = 200
       /\ last[1].out.raised = ""
       /\ ThreeCorsHeaders(last[1].out.headers)
       /\ last[1].out.body = NoBody

C3_Witness ==
    /\ LastIs(Commerce, "OPTIONS")
    /\ last[1].req.target = P_missing_html \o <<"/", "x">>
    /\ last[1].out.status = 200

(* C4: POST .../monitoring/start always answers 200 "Monitoring started",   *)
(* POST .../monitoring/stop 200 "Monitoring stopped"; after any earlier     *)
(* requests each answer is the same as before, and GET                      *)
(* /api/stock-alerts/statistics keeps reporting the same monitoringActive.  *)
C4_MonitoringIdempotent ==
    (last # <<>> /\ server = Commerce)
    => LET req == last[1].req
           out == last[1].out
       IN  /\ (req.method = "POST" /\ LastPath = P_monitoring_start)
              => /\ out.status = 200
                 /\ out.body = Json([success |-> TRUE,
                                     message |-> "Monitoring started"])
           /\ (req.method = "POST" /\ LastPath = P_monitoring_stop)
              => /\ out.status = 200
                 /\ out.body = Json([success |-> TRUE,
                                     message |-> "Monitoring stopped"])
           /\ (req.method = "GET" /\ LastPath = P_api_stock_alerts_statistics)
              => /\ out.status = 200
                 /\ JsonField(out, "monitoringActive", TRUE)
           /\ (/\ probe # <<>>
               /\ probe[1].method = req.method
               /\ probe[1].path = LastPath
               /\ \/ req.method = "POST" /\ LastPath \in EnumeratedPOST(Commerce)
                  \/ req.method = "GET" /\ LastPath = P_api_stock_alerts_statistics)
              => out = probe[1].out

C4_Witness ==
    /\ LastIs(Commerce, "POST")
    /\ LastPath = P_monitoring_stop
    /\ probe # <<>>
    /\ probe[1].method = "POST"
    /\ probe[1].path = P_monitoring_stop
    /\ JsonField(last[1].out, "message", "Monitoring stopped")

(* C5, as stated: every enumerated known GET path answers 200 with a JSON   *)
(* body equal to an immutable fixture (3 products, 2 outlets, 2 orders,     *)
(* 2 users, one statistics object, an empty list), so two requests to the   *)
(* same path at any two points return equal bodies.                         *)
FixtureCount(path, j) ==
    IF path = P_api_products THEN Len(j) = 3
    ELSE IF path \in {P_api_outlets, P_api_orders, P_api_auth_users} THEN Len(j) = 2
    ELSE IF path = P_api_stock_alerts THEN j = <<>>
    ELSE TRUE

SamePathAsProbe ==
    /\ probe # <<>>
    /\ probe[1].method = last[1].req.method
    /\ probe[1].path = LastPath

C5_EqualBodiesAlways ==
    (/\ last # <<>>
     /\ last[1].req.method = "GET"
     /\ LastPath \in KnownGET(server))
    => /\ last[1].out.status = 200
       /\ last[1].out.body.kind = "json"
       /\ FixtureCount(LastPath, last[1].out.body.json)
       /\ SamePathAsProbe => last[1].out.body = probe[1].out.body

(* C5, amended: the same, except that on the commerce server the body of    *)
(* /api/health carries the time of the request in its timestamp field: its  *)
(* status and message fields are fixed, and two health bodies agree in      *)
(* everything but the timestamp.  The fixture objects are keyed _id, name,  *)
(* ... as the handler writes them.                                          *)
FixtureShape(srv, path, j) ==
    IF srv = Staff
    THEN j = [status |-> "OK", message |-> "Staff Portal Server is running",
              endpoints |-> [staffLogin |-> "/staff-login",
                             ownerDashboard |-> "/owner-dashboard",
                             apiHealth |-> "/api/health"]]
    ELSE IF path = P_api_health
    THEN /\ DOMAIN j = {"status", "message", "timestamp"}
         /\ j.status = "OK"
         /\ j.message = "Python server is running"
    ELSE IF path = P_api_products
    THEN IsList(j, 3, {"_id", "name", "brand", "price", "stock"})
    ELSE IF path = P_api_outlets
    THEN IsList(j, 2, {"_id", "name", "location", "phone", "status"})
    ELSE IF path = P_api_orders
    THEN IsList(j, 2, {"_id", "orderNumber", "customer", "total", "status"})
    ELSE IF path = P_api_auth_users
    THEN IsList(j, 2, {"_id", "name", "email", "phone"})
    ELSE IF path = P_api_stock_alerts_statistics
    THEN DOMAIN j = {"activeAlerts", "alertsSentToday", "monitoringActive",
                     "totalPredictions"}
    ELSE j = <<>>

C5_EqualBodiesButTimestamp ==
    (/\ last # <<>>
     /\ last[1].req.method = "GET"
     /\ LastPath \in KnownGET(server))
    => LET out == last[1].out
       IN  /\ out.status = 200
           /\ out.body.kind = "json"
           /\ FixtureShape(server, LastPath, out.body.json)
           /\ SamePathAsProbe
              => IF server = Commerce /\ LastPath = P_api_health
                 THEN [out.body.json EXCEPT !.timestamp = 0] =
                      [probe[1].out.body.json EXCEPT !.timestamp = 0]
                 ELSE out.body = probe[1].out.body

C5_Witness ==
    /\ LastIs(Commerce, "GET")
    /\ LastPath = P_api_health
    /\ SamePathAsProbe
    /\ last[1].out.body # probe[1].out.body

(* C6, as stated: routing is by equality on the request path, the query    *)
(* string ignored: an enumerated path gets its canned answer whatever the   *)
(* query, every other GET is served as a static file, every other POST gets *)
(* 404 (empty body on the commerce server, "Not Found" on the staff one).   *)
Routing(path) ==
    last # <<>>
    => LET req  == last[1].req
           out  == last[1].out
           bare == [req EXCEPT !.target = path]
       IN  /\ (req.method = "GET" /\ path \notin EnumeratedGET(server))
              => out = SimpleHTTPRequestHandler_do_GET(req.target, fs)
           /\ (req.method = "POST" /\ path \notin EnumeratedPOST(server))
              => out = Response(404, {},
                                IF server = Commerce THEN NoBody
                                ELSE Bytes("Not Found"))
           /\ (\/ req.method = "GET" /\ path \in EnumeratedGET(server)
               \/ req.method = "POST" /\ path \in EnumeratedPOST(server))
              => \E now \in 1..MaxClock : out = Handle(server, bare, fs, now)

C6_RoutingOnPathWithoutQuery == last # <<>> => Routing(LastPath)

(* C6, amended: the path compared is the target cut at its fragment and its *)
(* query, and then at the parameters (";...") of its last segment.          *)
CutAt(chars, s) ==
    IF \E i \in 1..Len(s) : s[i] \in chars
    THEN SubSeq(s, 1, (CHOOSE i \in 1..Len(s) :
                          s[i] \in chars /\ \A j \in 1..(i - 1) : s[j] \notin chars) - 1)
    ELSE s

RoutedPath(target) ==
    LET u == CutAt({"?", "#"}, target)
        lastSlash == IF \E i \in 1..Len(u) : u[i] = "/"
                     THEN CHOOSE i \in 1..Len(u) :
                             u[i] = "/" /\ \A j \in (i + 1)..Len(u) : u[j] # "/"
                     ELSE 0
    IN  SubSeq(u, 1, lastSlash)
        \o CutAt({";"}, SubSeq(u, lastSlash + 1, Len(u)))

C6_RoutingOnParsedPath == last # <<>> => Routing(RoutedPath(last[1].req.target))

C6_Witness ==
    /\ LastIs(Commerce, "GET")
    /\ last[1].req.target = P_api_orders \o <<";", "p">>
    /\ last[1].out.status = 200
    /\ last[1].out.body = Json(Orders)

(* C7: on the commerce server GET /admin-fixed, with or without a query,    *)
(* returns the status and the bytes that GET /admin-dashboard-fixed.html    *)
(* returns in the same document root, the file present or absent.           *)
C7_AdminFixedSameAsHtml ==
    (LastIs(Commerce, "GET") /\ LastPath = P_admin_fixed)
    => last[1].out = AbaiSprings_do_GET(P_admin_dashboard_fixed_html, fs, 1)

C7_Witness ==
    /\ LastIs(Commerce, "GET")
    /\ last[1].req.target = P_admin_fixed \o <<"?", "q">>
    /\ last[1].out.status = 200
    /\ last[1].out.body = FileBytes(Tail(P_admin_dashboard_fixed_html))

(* C8: a GET that falls through to static serving and names no file of the  *)
(* document root gets the library's 404, on both servers; on the staff      *)
(* server GET /staff-login and GET /owner-dashboard always get 200          *)
(* text/html, with the contents of staff-login.html / owner-dashboard.html  *)
(* if the file exists and the literal fallback if not, never a 404.         *)
FallsThrough(srv, target) == RoutedPath(target) \notin EnumeratedGET(srv)

PageOrFallback(out, name, fallback) ==
    /\ out.status = 200
    /\ out.raised = ""
    /\ out.headers = {<<"Content-type", "text/html">>}
    /\ out.body = IF name \in fs THEN FileBytes(name) ELSE Bytes(fallback)

C8_MissingFiles ==
    (last # <<>> /\ last[1].req.method = "GET")
    => LET target == last[1].req.target
           out    == last[1].out
       IN  /\ (FallsThrough(server, target) /\ translate_path(target) \notin fs)
              => out.status = 404 /\ out.body.kind = "errorpage"
           /\ (server = Staff /\ LastPath = P_staff_login)
              => PageOrFallback(out, F_staff_login_html,
                                "<h1>Staff Login Page Not Found</h1>")
           /\ (server = Staff /\ LastPath = P_owner_dashboard)
              => PageOrFallback(out, F_owner_dashboard_html,
                                "<h1>Owner Dashboard Not Found</h1>")

C8_Witness ==
    /\ LastIs(Staff, "GET")
    /\ last[1].req.target = P_staff_login
    /\ F_staff_login_html \notin fs
    /\ Tail(P_staff_login) \in fs
    /\ last[1].out.status = 200
    /\ last[1].out.body = Bytes("<h1>Staff Login Page Not Found</h1>")

(* C9: an exception that leaves a handler ends that request only: the       *)
(* server keeps running, goes on accepting, and every request, before or    *)
(* after the failing one, has the outcome its handler gives it on its own.  *)
C9_ExceptionEndsOnlyItsRequest ==
    /\ up
    /\ (cur = {} /\ backlog # <<>>) => ENABLED Accept
    /\ \A i \in 1..Len(log) :
          \E now \in 1..MaxClock : log[i].out = Handle(server, log[i].req, fs, now)

C9_Witness ==
    \E i, j \in 1..Len(log) :
        /\ i < j
        /\ log[i].out.raised # ""
        /\ log[j].out.status = 200

(* C10: connections are handled one at a time and in the order accepted: at *)
(* most one handler runs, every accepted connection is finished before the  *)
(* next is accepted, and while the running handler waits for the body of a  *)
(* client that never sends it, nothing is accepted and nothing is answered: *)
(* the handler stays as it is, so the wait never ends.                      *)
Stuck == \E c \in cur : Blocked(c) /\ c.hung

C10_OneConnectionAtATime ==
    /\ [](/\ Cardinality(cur) <= 1
          /\ Len(accepted) = Len(log) + Cardinality(cur)
          /\ [i \in 1..Len(log) |-> log[i].id] = SubSeq(accepted, 1, Len(log)))
    /\ [][Stuck => (cur' = cur /\ log' = log /\ accepted' = accepted)]_vars

C10_Witness ==
    /\ Stuck
    /\ backlog # <<>>
    /\ Len(log) > 0
====
